---- MODULE Spec2Model ----
(***************************************************************************)
(* State-machine model of src/src/ModalFormPage.tsx (the ModalFormPage     *)
(* component) mounted by src/unnamed/part_001 inside <StrictMode>.         *)
(*                                                                         *)
(* One action per user event; every action contains the event handler, the *)
(* re-render it causes and the useEffect([isModalOpen]) cleanup/run that   *)
(* follows the re-render.  The browser parts the handlers rely on (the     *)
(* <dialog> open flag, focus, sequential focus navigation, event           *)
(* bubbling) and react-hook-form's useForm are modelled by what they do.   *)
(* The browser's interactive constraint validation that precedes the       *)
(* submit event is outside the model: Submit is the dispatch of the form's *)
(* submit event to handleSubmit(onSubmit).                                 *)
(***************************************************************************)
EXTENDS Integers, Sequences, FiniteSets, TLC

VARIABLES
    phase,            \* "init" | "mounted" | "unmounted" (createRoot().render / teardown)
    isModalOpen,      \* useState<boolean>(false)
    dialogInTree,     \* the <dialog> (ModalOverlay) is in the render tree
    content,          \* the descendants ModalContent renders, in tree order
    dialogOpen,       \* the native dialog's open flag (showModal() sets, close() clears)
    activeElement,    \* document.activeElement
    navStart,         \* the sequential focus navigation starting point
    listeners,        \* number of document keydown listeners registered by the effect
    formValues,       \* react-hook-form's field values
    errors,           \* formState.errors: field -> "none" | "required" | "minLength" | "pattern"
    isSubmitted,      \* formState.isSubmitted (switches on re-validation on change)
    lastEvent,        \* the event handled by the last step
    onSubmitArgs,     \* the arguments of the onSubmit invocations made by the last step
    overlayHandlerCalls, \* number of handleOverlayClick invocations made by the last step
    defaultPrevented, \* e.preventDefault() was called on the last keydown
    handlerFocused,   \* the element handleTabKey called focus() on in the last step, or "none"
    handlerThrew,     \* handleTabKey raised a TypeError in the last step
    staleAtOpen       \* the last openModal found input left over from an earlier session

vars == <<phase, isModalOpen, dialogInTree, content, dialogOpen, activeElement, navStart,
          listeners, formValues, errors, isSubmitted, lastEvent, onSubmitArgs,
          overlayHandlerCalls, defaultPrevented, handlerFocused, handlerThrew,
          staleAtOpen>>

-----------------------------------------------------------------------------
(* Bounds and sample inputs                                                *)

MaxSamples == 2

Take(seq, n) == {seq[i] : i \in 1..(IF n < Len(seq) THEN n ELSE Len(seq))}

Empty == <<>>
NameA == <<"A">>
NameAna == <<"A", "n", "a">>
NameJoPark == <<"J", "o", " ", "P", "a", "r", "k">>
EmailGood == <<"a", "@", "b", ".", "c", "o">>
EmailBad == <<"n", "o", "t", "-", "a", "n", "-", "e", "m", "a", "i", "l">>
EmailJo == <<"j", "o", "@", "x", ".", "c", "o", "m">>
EmailNoTld == <<"a", "@", "b">>
GithubAlice == <<"h", "t", "t", "p", "s", ":", "/", "/", "g", "i", "t", "h", "u", "b",
                 ".", "c", "o", "m", "/", "a", "l", "i", "c", "e">>
GitlabX == <<"h", "t", "t", "p", "s", ":", "/", "/", "g", "i", "t", "l", "a", "b",
             ".", "c", "o", "m", "/", "x">>
GithubWww == <<"h", "t", "t", "p", "s", ":", "/", "/", "w", "w", "w", ".", "g", "i", "t",
               "h", "u", "b", ".", "c", "o", "m", "/", "x", "/">>
GithubNoHandle == <<"h", "t", "t", "p", "s", ":", "/", "/", "g", "i", "t", "h", "u", "b",
                    ".", "c", "o", "m", "/">>
Exp03 == <<"0", "-", "3">>
Exp47 == <<"4", "-", "7">>
Exp8 == <<"8", "+">>

\* What the user can type into each field.  The select offers only its three
\* enabled options; its "" option is disabled and is only the initial value.
NameSamples == Take(<<NameA, NameJoPark, Empty, NameAna>>, MaxSamples)
EmailSamples == Take(<<EmailJo, EmailBad, Empty, EmailGood, EmailNoTld>>, MaxSamples)
GithubSamples == Take(<<GithubAlice, GitlabX, Empty, GithubWww, GithubNoHandle>>, MaxSamples)
ExperienceOptions == {Exp03, Exp47, Exp8}

Fields == {"name", "email", "experience", "github"}

Samples(f) ==
    CASE f = "name" -> NameSamples
      [] f = "email" -> EmailSamples
      [] f = "experience" -> ExperienceOptions
      [] f = "github" -> GithubSamples

-----------------------------------------------------------------------------
(* The rendered document                                                   *)

\* Nodes in document (tree) order.  "page" is the page behind the modal,
\* "overlay" the <dialog>, "content" the content box.
DocOrder == <<"page", "trigger", "overlay", "content", "title", "description",
              "name", "email", "experience", "github", "cancel", "submit">>

\* The descendants of ModalContent, in tree order.
ContentNodes == <<"title", "description", "name", "email", "experience", "github",
                  "cancel", "submit">>

\* Tag (and tabindex) of each node as rendered.
Tag(n) ==
    CASE n = "page" -> "div"
      [] n = "trigger" -> "button"
      [] n = "overlay" -> "dialog"
      [] n = "content" -> "div"
      [] n = "title" -> "h2[tabindex=0]"
      [] n = "description" -> "p"
      [] n \in {"name", "email", "github"} -> "input"
      [] n = "experience" -> "select"
      [] n \in {"cancel", "submit"} -> "button"

\* modalContentRef.current.querySelectorAll('[tabindex="0"], [href], input, select, button')
MatchesSelector(n) == Tag(n) \in {"h2[tabindex=0]", "a[href]", "input", "select", "button"}

QuerySelectorAll(nodes) == SelectSeq(nodes, MatchesSelector)

\* Elements the browser lets take focus.
Focusable(n) == Tag(n) \in {"h2[tabindex=0]", "input", "select", "button"}

InDialog(n) == n \in {ContentNodes[i] : i \in 1..Len(ContentNodes)}

\* n is one of the descendants ModalContent currently renders.
Rendered(n) == \E i \in 1..Len(content) : content[i] = n

IndexOf(seq, x) == CHOOSE i \in 1..Len(seq) : seq[i] = x

\* The document's tab order: the focusable nodes in the tree that are not
\* inert.  A dialog shown with showModal() makes everything outside it inert.
TabOrder(inTree, modal) ==
    LET present(n) == IF InDialog(n) THEN inTree /\ Rendered(n)
                      ELSE IF n \in {"overlay", "content"} THEN inTree
                      ELSE ~modal
        ok(n) == Focusable(n) /\ present(n)
    IN SelectSeq(DocOrder, ok)

\* Browser default for Tab / Shift+Tab: the next / previous entry of the tab
\* order relative to the navigation starting point, wrapping at the ends.
DefaultTab(start, shift, inTree, modal) ==
    LET order == TabOrder(inTree, modal)
        pos == IF \E i \in 1..Len(DocOrder) : DocOrder[i] = start
               THEN IndexOf(DocOrder, start)
               ELSE 0   \* the body: navigation starts at the top of the document
        after == SelectSeq(order, LAMBDA n : IndexOf(DocOrder, n) > pos)
        before == SelectSeq(order, LAMBDA n : IndexOf(DocOrder, n) < pos)
    IN IF order = <<>> THEN "body"
       ELSE IF shift
            THEN (IF before # <<>> THEN before[Len(before)] ELSE order[Len(order)])
            ELSE (IF after # <<>> THEN after[1] ELSE order[1])

-----------------------------------------------------------------------------
(* react-hook-form: useForm({defaultValues}), register(rules), reset,      *)
(* handleSubmit                                                            *)

\* useForm defaultValues
defaultValues == [name |-> Empty, email |-> Empty, experience |-> Empty, github |-> Empty]

NoErrors == [f \in Fields |-> "none"]

MinNameLength == 2

Whitespace == {" ", "\t", "\n"}
LineTerminators == {"\n"}
Digits == {"0", "1", "2", "3", "4", "5", "6", "7", "8", "9"}
Letters == {"a", "b", "c", "d", "e", "f", "g", "h", "i", "j", "k", "l", "m", "n", "o",
            "p", "q", "r", "s", "t", "u", "v", "w", "x", "y", "z",
            "A", "B", "C", "D", "E", "F", "G", "H", "I", "J", "K", "L", "M", "N", "O",
            "P", "Q", "R", "S", "T", "U", "V", "W", "X", "Y", "Z"}

\* /^[^\s@]+@[^\s@]+\.[^\s@]+$/
EmailPattern(s) ==
    \E i \in 1..Len(s), k \in 1..Len(s) :
        /\ s[i] = "@"
        /\ i > 1
        /\ s[k] = "."
        /\ k > i + 1
        /\ k < Len(s)
        /\ \A j \in 1..Len(s) : j # i => s[j] \notin (Whitespace \cup {"@"})

\* s has the literal lit at offset at (0-based)
HasAt(s, lit, at) ==
    /\ Len(s) >= at + Len(lit)
    /\ \A j \in 1..Len(lit) : s[at + j] = lit[j]

HttpsLit == <<"h", "t", "t", "p", "s", ":", "/", "/">>
WwwLit == <<"w", "w", "w", ".">>
GithubLit == <<"g", "i", "t", "h", "u", "b", ".", "c", "o", "m", "/">>

\* Variant of GithubPattern that does not test the host.
GithubPatternAnyHost(s) == HasAt(s, HttpsLit, 0)

\* /^https:\/\/(www\.)?github\.com\/[a-zA-Z0-9-]+\/?.*$/
GithubPattern(s) ==
    /\ HasAt(s, HttpsLit, 0)
    /\ \E w \in {0, Len(WwwLit)} :
           /\ w > 0 => HasAt(s, WwwLit, Len(HttpsLit))
           /\ HasAt(s, GithubLit, Len(HttpsLit) + w)
           /\ LET h == Len(HttpsLit) + w + Len(GithubLit) + 1
              IN /\ Len(s) >= h
                 /\ s[h] \in (Letters \cup Digits \cup {"-"})
                 /\ \A j \in (h + 1)..Len(s) : s[j] \notin LineTerminators

\* The rules given to register(), evaluated as react-hook-form's validateField
\* does: required first, then minLength, then pattern; the first failure is
\* the field's error, and an empty optional value skips the other rules.
ValidateField(f, v) ==
    CASE f = "name" ->
             IF v = Empty THEN "required"
             ELSE IF Len(v) < MinNameLength THEN "minLength"
             ELSE "none"
      [] f = "email" ->
             IF v = Empty THEN "required"
             ELSE IF ~EmailPattern(v) THEN "pattern"
             ELSE "none"
      [] f = "experience" ->
             IF v = Empty THEN "required" ELSE "none"
      [] f = "github" ->
             IF v = Empty THEN "none"
             ELSE IF ~GithubPattern(v) THEN "pattern"
             ELSE "none"

ValidateAll(values) == [f \in Fields |-> ValidateField(f, values[f])]

IsValid(values) == ValidateAll(values) = NoErrors

\* Fields in registration order; handleSubmit focuses the first one in error.
FieldOrder == <<"name", "email", "experience", "github">>

FirstInvalid(errs) ==
    LET bad == SelectSeq(FieldOrder, LAMBDA f : errs[f] # "none")
    IN bad[1]

-----------------------------------------------------------------------------
(* useEffect(() => {...}, [isModalOpen])                                   *)

\* Variant of EffectRun that registers the listener in both branches.
EffectRunAlways(open, n) == n + 1

\* The effect body's listener part: document.addEventListener when open.
EffectRun(open, n) == IF open THEN n + 1 ELSE n

\* Variant of EffectCleanup that returns no cleanup: the listener stays.
EffectCleanupKeepsListener(wasOpen, n) == n

\* The cleanup the previous run returned: removeEventListener, returned only
\* by the open branch.
EffectCleanup(wasOpen, n) == IF wasOpen THEN n - 1 ELSE n

\* Variant of EffectFocus whose open branch does not move focus to the title.
EffectFocusSkipsTitle(open) == "trigger"

\* Variant of EffectFocus whose closed branch restores nothing: focus is left
\* on the body once the dialog is gone.
EffectFocusNoRestore(open) == IF open THEN "title" ELSE "body"

\* The effect body's focus part: modalTitleRef.current?.focus() when open,
\* openButtonRef.current?.focus() otherwise.
EffectFocus(open) == IF open THEN "title" ELSE "trigger"

\* Variant of handleTabKey that also wraps forward when focus is on no
\* element of the array (a trap that pulls outside focus back in).
handleTabKeyTrapsOutside(key, shiftKey, active, focusableArray) ==
    LET n == Len(focusableArray)
        firstElement == IF n > 0 THEN focusableArray[1] ELSE "undefined"
        lastElement == IF n > 0 THEN focusableArray[n] ELSE "undefined"
        inside == \E i \in 1..n : focusableArray[i] = active
        untouched == [prevented |-> FALSE, focused |-> "none", threw |-> FALSE,
                      focus |-> active]
        focusOn(el) == IF el = "undefined"
                       THEN [prevented |-> TRUE, focused |-> "none", threw |-> TRUE,
                             focus |-> active]
                       ELSE [prevented |-> TRUE, focused |-> el, threw |-> FALSE,
                             focus |-> el]
    IN IF key # "Tab" THEN untouched
       ELSE IF shiftKey /\ active = firstElement THEN focusOn(lastElement)
       ELSE IF ~shiftKey /\ (active = lastElement \/ ~inside) THEN focusOn(firstElement)
       ELSE untouched

\* Variant of handleTabKey that forgets the shiftKey test of the forward
\* wrap: on the last element it always wraps to the first.
handleTabKeyIgnoresShift(key, shiftKey, active, focusableArray) ==
    LET n == Len(focusableArray)
        untouched == [prevented |-> FALSE, focused |-> "none", threw |-> FALSE,
                      focus |-> active]
        focusOn(el) == [prevented |-> TRUE, focused |-> el, threw |-> FALSE, focus |-> el]
    IN IF key # "Tab" \/ n = 0 THEN untouched
       ELSE IF active = focusableArray[n] THEN focusOn(focusableArray[1])
       ELSE IF shiftKey /\ active = focusableArray[1] THEN focusOn(focusableArray[n])
       ELSE untouched

\* handleTabKey for a keydown of key with shiftKey while
\* document.activeElement is active and the content holds focusableArray:
\* whether preventDefault() was called, the element focus() was called on
\* ("none" if none), whether the call raised a TypeError, and the resulting
\* document.activeElement.  An empty array gives firstElement = lastElement
\* = undefined; calling focus() on undefined raises.
handleTabKey(key, shiftKey, active, focusableArray) ==
    LET n == Len(focusableArray)
        firstElement == IF n > 0 THEN focusableArray[1] ELSE "undefined"
        lastElement == IF n > 0 THEN focusableArray[n] ELSE "undefined"
        untouched == [prevented |-> FALSE, focused |-> "none", threw |-> FALSE,
                      focus |-> active]
        focusOn(el) == IF el = "undefined"
                       THEN [prevented |-> TRUE, focused |-> "none", threw |-> TRUE,
                             focus |-> active]
                       ELSE [prevented |-> TRUE, focused |-> el, threw |-> FALSE,
                             focus |-> el]
    IN IF key # "Tab" THEN untouched
       ELSE IF shiftKey /\ active = firstElement THEN focusOn(lastElement)
       ELSE IF ~shiftKey /\ active = lastElement THEN focusOn(firstElement)
       ELSE untouched

-----------------------------------------------------------------------------
(* Handlers of the component                                               *)

\* Variant of RefIsSet for a ref that is never attached to the dialog.
RefNeverSet(inTree) == FALSE

\* modalRef.current?.showModal() / ?.close(): modalRef.current is non-null
\* only while the <dialog> is in the render tree.
RefIsSet(inTree) == inTree

\* Variant of handleKeyDown without the key test.
handleKeyDownAnyKey(key) == TRUE

\* handleKeyDown: closeModal() is called for this key.
handleKeyDown(key) == key = "Escape"

\* handleOverlayClick: closeModal() is called for a click with this target.
handleOverlayClick(target) == target = "overlay"

\* Variant of ContentStopsPropagation without the stopPropagation() call.
PropagationNotStopped == FALSE

\* ModalContent onClick={(e) => e.stopPropagation()}
ContentStopsPropagation == TRUE

\* A click on target bubbles up to the ModalOverlay's onClick.
ReachesOverlay(target) == target = "overlay" \/ ~ContentStopsPropagation

\* Variant of ResetValues for an openModal without reset().
ResetKeepsValues(values) == values

\* openModal's reset(): the field values after it.
ResetValues(values) == defaultValues

\* Variant of SubmitData that hands over the defaults instead of the input.
SubmitDataDefaults(values) == defaultValues

\* onSubmit's data: handleSubmit passes the current field values.
SubmitData(values) == values

\* Variant of InvokesOnSubmit that skips validation.
InvokesOnSubmitAlways(values) == TRUE

\* handleSubmit(onSubmit): onSubmit is invoked only when no rule fails.
InvokesOnSubmit(values) == IsValid(values)

\* {isModalOpen && <ModalOverlay ...>}
RendersDialog(open) == open

\* A step in which no keydown reached handleTabKey.
NoTabHandler ==
    /\ defaultPrevented' = FALSE
    /\ handlerFocused' = "none"
    /\ handlerThrew' = FALSE

EventRec(type, on, shift) == [type |-> type, on |-> on, shiftKey |-> shift]

\* The re-render after a handler that left the state at newOpen, the native
\* flag at newDialogOpen and focus at focus/nav, followed by the effect: it
\* re-runs (cleanup first) only when isModalOpen changed.
Commit(newOpen, newDialogOpen, focus, nav) ==
    LET changed == newOpen # isModalOpen
    IN /\ isModalOpen' = newOpen
       /\ dialogInTree' = RendersDialog(newOpen)
       /\ dialogOpen' = (RendersDialog(newOpen) /\ newDialogOpen)
       /\ listeners' = IF changed
                       THEN EffectRun(newOpen, EffectCleanup(isModalOpen, listeners))
                       ELSE listeners
       /\ activeElement' = IF changed THEN EffectFocus(newOpen) ELSE focus
       /\ navStart' = IF changed THEN EffectFocus(newOpen) ELSE nav

\* openModal: setIsModalOpen(true); modalRef.current?.showModal(); reset().
\* showModal() on the (closed) dialog sets its open flag and runs the dialog
\* focusing steps, which focus its first focusable descendant.
openModal ==
    LET shown == RefIsSet(dialogInTree)
        first == QuerySelectorAll(content)[1]
    IN /\ Commit(TRUE, shown \/ dialogOpen,
                 IF shown /\ ~dialogOpen THEN first ELSE activeElement,
                 IF shown /\ ~dialogOpen THEN first ELSE navStart)
       /\ formValues' = ResetValues(formValues)
       /\ errors' = NoErrors
       /\ isSubmitted' = FALSE
       /\ staleAtOpen' = (formValues # defaultValues)

\* closeModal: setIsModalOpen(false); modalRef.current?.close().
closeModal(focus, nav) == Commit(FALSE, FALSE, focus, nav)

-----------------------------------------------------------------------------
(* Actions                                                                 *)

Init ==
    /\ phase = "init"
    /\ isModalOpen = FALSE
    /\ dialogInTree = FALSE
    /\ content = ContentNodes
    /\ dialogOpen = FALSE
    /\ activeElement = "body"
    /\ navStart = "page"
    /\ listeners = 0
    /\ formValues = defaultValues
    /\ errors = NoErrors
    /\ isSubmitted = FALSE
    /\ lastEvent = EventRec("none", "none", FALSE)
    /\ onSubmitArgs = <<>>
    /\ overlayHandlerCalls = 0
    /\ defaultPrevented = FALSE
    /\ handlerFocused = "none"
    /\ handlerThrew = FALSE
    /\ staleAtOpen = FALSE

\* createRoot(...).render(<StrictMode><ModalFormPage/></StrictMode>): the
\* first render, then the effect, its cleanup and the effect again.
Mount ==
    /\ phase = "init"
    /\ phase' = "mounted"
    /\ isModalOpen' = FALSE
    /\ dialogInTree' = RendersDialog(FALSE)
    /\ dialogOpen' = FALSE
    /\ listeners' = EffectRun(FALSE, EffectCleanup(FALSE, EffectRun(FALSE, listeners)))
    /\ activeElement' = EffectFocus(FALSE)
    /\ navStart' = EffectFocus(FALSE)
    /\ lastEvent' = EventRec("mount", "root", FALSE)
    /\ UNCHANGED content
    /\ onSubmitArgs' = <<>>
    /\ overlayHandlerCalls' = 0
    /\ NoTabHandler
    /\ UNCHANGED <<staleAtOpen, formValues, errors, isSubmitted>>

\* The component is torn down: the last effect's cleanup runs.
Unmount ==
    /\ phase = "mounted"
    /\ phase' = "unmounted"
    /\ listeners' = EffectCleanup(isModalOpen, listeners)
    /\ dialogInTree' = FALSE
    /\ dialogOpen' = FALSE
    /\ activeElement' = "body"
    /\ navStart' = "page"
    /\ lastEvent' = EventRec("unmount", "root", FALSE)
    /\ UNCHANGED content
    /\ onSubmitArgs' = <<>>
    /\ overlayHandlerCalls' = 0
    /\ NoTabHandler
    /\ UNCHANGED <<staleAtOpen, isModalOpen, formValues, errors, isSubmitted>>

\* The trigger button is activated.  While the dialog is rendered it covers
\* the whole viewport, so the button can only be activated from the keyboard
\* with focus on it, and not at all when it is inert behind a modal dialog.
ClickTrigger ==
    /\ phase = "mounted"
    /\ ~dialogInTree \/ (activeElement = "trigger" /\ ~dialogOpen)
    /\ openModal
    /\ lastEvent' = EventRec("click", "trigger", FALSE)
    /\ UNCHANGED content
    /\ onSubmitArgs' = <<>>
    /\ overlayHandlerCalls' = 0
    /\ NoTabHandler
    /\ UNCHANGED phase

\* A click on the page while no dialog covers it: focus leaves the trigger.
ClickPage ==
    /\ phase = "mounted"
    /\ ~dialogInTree
    /\ activeElement' = "body"
    /\ navStart' = "page"
    /\ lastEvent' = EventRec("click", "page", FALSE)
    /\ UNCHANGED content
    /\ onSubmitArgs' = <<>>
    /\ overlayHandlerCalls' = 0
    /\ NoTabHandler
    /\ UNCHANGED <<staleAtOpen, phase, isModalOpen, dialogInTree, dialogOpen, listeners, formValues,
                   errors, isSubmitted>>

\* Targets of a click inside the rendered dialog, other than the submit button.
ClickTargets == {"overlay", "content", "title", "description", "name", "email",
                 "experience", "github", "cancel"}

\* A click on the overlay itself, on the content box or on one of its
\* descendants.  The click focuses its target when that is focusable and
\* focuses nothing (the body) otherwise; Cancel's onClick is closeModal.
Click(target) ==
    LET focus == IF Focusable(target) THEN target ELSE "body"
        overlayRuns == ReachesOverlay(target)
        closes == target = "cancel" \/ (overlayRuns /\ handleOverlayClick(target))
    IN /\ phase = "mounted"
       /\ dialogInTree
       /\ IF closes THEN closeModal(focus, target)
                    ELSE Commit(isModalOpen, dialogOpen, focus, target)
       /\ lastEvent' = EventRec("click", target, FALSE)
       /\ UNCHANGED content
       /\ onSubmitArgs' = <<>>
       /\ overlayHandlerCalls' = (IF overlayRuns THEN 1 ELSE 0)
       /\ NoTabHandler
       /\ UNCHANGED <<staleAtOpen, phase, formValues, errors, isSubmitted>>

Keys == {"Tab", "Escape"}

\* A key is pressed.  The keydown is dispatched to document.activeElement:
\* the ModalOverlay's onKeyDown runs when that element is inside the dialog,
\* the document listeners registered by the effect run next, and the
\* browser's default action follows: sequential focus navigation for a Tab
\* that was not prevented, and for Escape the close request of a dialog that
\* showModal() opened (its close() puts focus back on the element focused
\* before showModal(), the trigger).
KeyDown(key, shiftKey) ==
    LET onOverlay == dialogInTree /\ Rendered(activeElement)
        escapes == onOverlay /\ handleKeyDown(key)
        trap == IF listeners > 0 /\ RefIsSet(dialogInTree)
                THEN handleTabKey(key, shiftKey, activeElement,
                                  QuerySelectorAll(content))
                ELSE [prevented |-> FALSE, focused |-> "none", threw |-> FALSE,
                      focus |-> activeElement]
        moved == trap.focus # activeElement
        focus == IF key = "Tab" /\ ~trap.prevented
                 THEN DefaultTab(navStart, shiftKey, dialogInTree, dialogOpen)
                 ELSE trap.focus
        nav == IF focus = activeElement /\ ~moved THEN navStart ELSE focus
        nativeClose == key = "Escape" /\ dialogOpen
    IN /\ phase = "mounted"
       /\ IF escapes THEN closeModal(focus, nav)
          ELSE IF nativeClose THEN Commit(isModalOpen, FALSE, "trigger", "trigger")
          ELSE Commit(isModalOpen, dialogOpen, focus, nav)
       /\ lastEvent' = EventRec("keydown", key, shiftKey)
       /\ UNCHANGED content
       /\ onSubmitArgs' = <<>>
       /\ overlayHandlerCalls' = 0
       /\ defaultPrevented' = trap.prevented
       /\ handlerFocused' = trap.focused
       /\ handlerThrew' = trap.threw
       /\ UNCHANGED <<staleAtOpen, phase, formValues, errors, isSubmitted>>

\* The user enters value v into the focused field f.  After a submit attempt
\* react-hook-form re-validates the changed field (reValidateMode onChange).
Type(f, v) ==
    /\ phase = "mounted"
    /\ dialogInTree
    /\ activeElement = f
    /\ formValues[f] # v
    /\ formValues' = [formValues EXCEPT ![f] = v]
    /\ errors' = IF isSubmitted THEN [errors EXCEPT ![f] = ValidateField(f, v)] ELSE errors
    /\ lastEvent' = EventRec("input", f, FALSE)
    /\ UNCHANGED content
    /\ onSubmitArgs' = <<>>
    /\ overlayHandlerCalls' = 0
    /\ NoTabHandler
    /\ UNCHANGED <<staleAtOpen, phase, isModalOpen, dialogInTree, dialogOpen, activeElement, navStart,
                   listeners, isSubmitted>>

\* The form's submit event reaches handleSubmit(onSubmit), from a click on
\* the submit button (which takes focus) or from Enter in a text input.
\* Valid: onSubmit(data) logs the data and calls closeModal().  Invalid: the
\* errors are stored and the first field in error is focused.
Submit(byClick) ==
    LET focus == IF byClick THEN "submit" ELSE activeElement
        errs == ValidateAll(formValues)
        invoke == InvokesOnSubmit(formValues)
        bad == IF errs = NoErrors THEN focus ELSE FirstInvalid(errs)
    IN /\ phase = "mounted"
       /\ dialogInTree
       /\ byClick \/ activeElement \in {"name", "email", "github"}
       /\ IF invoke THEN closeModal(focus, focus)
                    ELSE Commit(isModalOpen, dialogOpen, bad, bad)
       /\ onSubmitArgs' = (IF invoke THEN <<SubmitData(formValues)>> ELSE <<>>)
       /\ errors' = errs
       /\ isSubmitted' = TRUE
       /\ lastEvent' = EventRec("submit", "form", FALSE)
       /\ UNCHANGED content
       /\ overlayHandlerCalls' = 0
       /\ NoTabHandler
       /\ UNCHANGED <<staleAtOpen, phase, formValues>>

Next ==
    \/ Mount
    \/ Unmount
    \/ ClickTrigger
    \/ ClickPage
    \/ \E target \in ClickTargets : Click(target)
    \/ \E key \in Keys, shiftKey \in BOOLEAN : KeyDown(key, shiftKey)
    \/ \E f \in Fields : \E v \in Samples(f) : Type(f, v)
    \/ \E byClick \in BOOLEAN : Submit(byClick)

Spec == Init /\ [][Next]_vars

-----------------------------------------------------------------------------
(* handleTabKey over any content                                           *)

\* The focusable descendants of ModalContent.
ContentFocusables == {n \in {ContentNodes[i] : i \in 1..Len(ContentNodes)} : Focusable(n)}

\* Every selection of ModalContent's descendants, kept in tree order; the
\* selections <<>> and <<"description">> hold no focusable element.
ContentSelections ==
    {SelectSeq(ContentNodes, LAMBDA n : n \in S) :
        S \in SUBSET {ContentNodes[i] : i \in 1..Len(ContentNodes)}}

\* The modal is open (the effect has run: one listener) over some content,
\* with focus on the body, on the trigger or on a focusable rendered node.
TrapInit ==
    /\ phase = "mounted"
    /\ isModalOpen = TRUE
    /\ dialogInTree = TRUE
    /\ content \in ContentSelections
    /\ dialogOpen = FALSE
    /\ activeElement \in {"body", "trigger"} \cup {n \in ContentFocusables : Rendered(n)}
    /\ navStart = (IF activeElement = "body" THEN "content" ELSE activeElement)
    /\ listeners = 1
    /\ formValues = defaultValues
    /\ errors = NoErrors
    /\ isSubmitted = FALSE
    /\ lastEvent = EventRec("click", "trigger", FALSE)
    /\ onSubmitArgs = <<>>
    /\ overlayHandlerCalls = 0
    /\ defaultPrevented = FALSE
    /\ handlerFocused = "none"
    /\ handlerThrew = FALSE
    /\ staleAtOpen = FALSE

TrapNext == \E key \in Keys, shiftKey \in BOOLEAN : KeyDown(key, shiftKey)

TrapSpec == TrapInit /\ [][TrapNext]_vars

-----------------------------------------------------------------------------
(* Properties                                                              *)

IsClick(ev, on) == ev.type = "click" /\ ev.on = on
IsKey(ev, key) == ev.type = "keydown" /\ ev.on = key

\* C1: in every reachable state of the mounted component the dialog element
\* is in the render tree exactly when isModalOpen is true, and the native
\* dialog's open flag equals isModalOpen.
C1_DialogAgreesWithState ==
    phase = "mounted" =>
        /\ dialogInTree = isModalOpen
        /\ dialogOpen = isModalOpen

\* C2: while the modal is open, the focused element is always one of the
\* focusable elements inside the dialog content; focus never reaches the
\* trigger button or anything else behind the modal.
C2_FocusStaysInDialog ==
    (phase = "mounted" /\ isModalOpen) => activeElement \in ContentFocusables

\* C3: after every Open-to-Closed transition of the mounted component and
\* its effect run, keyboard focus is on the trigger button.
C3_FocusRestoredOnClose ==
    [][(isModalOpen /\ ~isModalOpen' /\ phase' = "mounted")
           => activeElement' = "trigger"]_vars

\* C3 witness: the modal was just closed by a valid submit with focus
\* restored to the trigger.
C3_Witness ==
    /\ phase = "mounted"
    /\ ~isModalOpen
    /\ lastEvent.type = "submit"
    /\ activeElement = "trigger"

\* C4: the number of document keydown listeners is 1 exactly when the
\* component is mounted with the modal open and 0 otherwise, never 2 or
\* more, and 0 after unmount even if the modal was open at unmount.
C4_ListenerCount ==
    listeners = (IF phase = "mounted" /\ isModalOpen THEN 1 ELSE 0)

\* C4 witness: the component was unmounted while the modal was open and no
\* listener is left.
C4_Witness ==
    /\ phase = "unmounted"
    /\ isModalOpen
    /\ listeners = 0

\* C5: a submit attempt with at least one field violating its rule never
\* invokes the submit handler and leaves the modal open, with the form still
\* rendered for a further submit.
C5_InvalidSubmitBlocked ==
    [][(lastEvent'.type = "submit" /\ \E f \in Fields : ValidateField(f, formValues[f]) # "none")
           => /\ onSubmitArgs' = <<>>
              /\ isModalOpen /\ isModalOpen'
              /\ dialogInTree']_vars

\* C5 witness: a submit with a too short name and a malformed email was
\* refused: no handler call, the modal still open, the errors recorded.
C5_Witness ==
    /\ lastEvent.type = "submit"
    /\ onSubmitArgs = <<>>
    /\ isModalOpen
    /\ errors["name"] = "minLength"
    /\ errors["email"] = "pattern"

\* C6: for every record whose fields all satisfy their rules, a submit while
\* open invokes the submit handler exactly once with exactly the entered
\* values, and then the modal is closed.
C6_ValidSubmitDelivers ==
    [][(lastEvent'.type = "submit" /\ isModalOpen
            /\ \A f \in Fields : ValidateField(f, formValues[f]) = "none")
           => /\ onSubmitArgs' = <<formValues>>
              /\ ~isModalOpen']_vars

\* C6 witness: the record name "Jo Park", email "jo@x.com", experience
\* "0-3", github "" was submitted and the modal is closed.
C6_Witness ==
    /\ lastEvent.type = "submit"
    /\ ~isModalOpen
    /\ onSubmitArgs = <<[name |-> NameJoPark, email |-> EmailJo,
                         experience |-> Exp03, github |-> Empty]>>

\* C7: whenever the modal is open an Escape key press closes it, wherever
\* keyboard focus is; whenever it is closed an Escape key press changes
\* nothing.
C7_EscapeAlwaysCloses ==
    [][IsKey(lastEvent', "Escape")
           => IF isModalOpen
              THEN ~isModalOpen'
              ELSE UNCHANGED <<isModalOpen, dialogInTree, dialogOpen, activeElement,
                               listeners, formValues, errors>>]_vars

\* C8: while open, a click on the overlay element itself closes the modal; a
\* click on the content box or a descendant of it does not reach the overlay
\* handler and does not close the modal, except a click on Cancel and a
\* submit of valid values.
C8_OverlayClickOnly ==
    [][/\ (IsClick(lastEvent', "overlay") /\ isModalOpen) => ~isModalOpen'
       /\ (lastEvent'.type = "click" /\ isModalOpen
               /\ lastEvent'.on \in (ClickTargets \ {"overlay"}))
              => /\ overlayHandlerCalls' = 0
                 /\ isModalOpen' = (lastEvent'.on # "cancel")
       /\ (lastEvent'.type = "submit" /\ isModalOpen)
              => /\ overlayHandlerCalls' = 0
                 /\ isModalOpen' = ~IsValid(formValues)]_vars

\* C8 witness: a click on a descendant of the content box left the modal open
\* without the overlay handler running.
C8_Witness ==
    /\ IsClick(lastEvent, "description")
    /\ isModalOpen
    /\ overlayHandlerCalls = 0

\* C9: after every openModal all four fields hold their default empty
\* values, whatever was left from an earlier session.
C9_OpenResetsFields ==
    [][IsClick(lastEvent', "trigger") => formValues' = defaultValues]_vars

\* C9 witness: the modal was opened while input of an earlier session was
\* still held, and the fields are at their defaults.
C9_Witness ==
    /\ IsClick(lastEvent, "trigger")
    /\ staleAtOpen
    /\ isModalOpen
    /\ formValues = defaultValues

\* C10: isModalOpen becomes true only by a click on the trigger button and
\* becomes false only by a Cancel click, an Escape key press, a click on the
\* overlay or a submit that invoked the submit handler; it is always a
\* boolean.
C10_TransitionsOnlyByEvents ==
    [][/\ (~isModalOpen /\ isModalOpen') => IsClick(lastEvent', "trigger")
       /\ (isModalOpen /\ ~isModalOpen')
              => \/ IsClick(lastEvent', "cancel")
                 \/ IsKey(lastEvent', "Escape")
                 \/ IsClick(lastEvent', "overlay")
                 \/ (lastEvent'.type = "submit" /\ onSubmitArgs' # <<>>)
       /\ isModalOpen' \in BOOLEAN]_vars

\* C10 witness: the modal is open after Tab presses, typing and a failed
\* submit have happened in the session.
C10_Witness ==
    /\ isModalOpen
    /\ IsKey(lastEvent, "Tab")
    /\ isSubmitted
    /\ formValues # defaultValues

\* C11: for every Tab press while open: with Shift held and focus on the
\* first focusable element of the content (the title), default is prevented
\* and focus moves to the last (the submit button); without Shift and focus
\* on the last, default is prevented and focus moves to the first; in every
\* other case, and for every other key, the handler neither prevents default
\* nor calls focus().
C11_TabWrapsOnlyAtEnds ==
    [][(lastEvent'.type = "keydown" /\ isModalOpen)
           => IF lastEvent'.on = "Tab" /\ lastEvent'.shiftKey /\ activeElement = "title"
              THEN defaultPrevented' /\ handlerFocused' = "submit"
                   /\ activeElement' = "submit"
              ELSE IF lastEvent'.on = "Tab" /\ ~lastEvent'.shiftKey
                      /\ activeElement = "submit"
              THEN defaultPrevented' /\ handlerFocused' = "title"
                   /\ activeElement' = "title"
              ELSE ~defaultPrevented' /\ handlerFocused' = "none"]_vars

\* C11 witness: Shift+Tab on the title wrapped backward to the submit button.
C11_Witness ==
    /\ IsKey(lastEvent, "Tab")
    /\ lastEvent.shiftKey
    /\ isModalOpen
    /\ defaultPrevented
    /\ handlerFocused = "submit"
    /\ activeElement = "submit"

\* C12: after every Closed-to-Open transition and its effect run, keyboard
\* focus is on the dialog's title element, which is focusable through its
\* tabindex of 0.
C12_TitleFocusedOnOpen ==
    [][(~isModalOpen /\ isModalOpen')
           => /\ activeElement' = "title"
              /\ Tag("title") = "h2[tabindex=0]"
              /\ Focusable("title")]_vars

\* C12 witness: the trigger click opened the modal and the title has focus.
C12_Witness ==
    /\ IsClick(lastEvent, "trigger")
    /\ isModalOpen
    /\ listeners = 1
    /\ activeElement = "title"

\* The sample values that have the shape local@domain.tld, and those that
\* are GitHub profile URLs https://[www.]github.com/<handle>[/...].
WellFormedEmails == {EmailJo, EmailGood}
GithubProfileUrls == {GithubAlice, GithubWww}

\* The error each field is to carry for a record, as the claim states it.
ExpectedError(f, v) ==
    CASE f = "name" -> IF Len(v) = 0 THEN "required"
                       ELSE IF Len(v) < 2 THEN "minLength" ELSE "none"
      [] f = "email" -> IF Len(v) = 0 THEN "required"
                        ELSE IF v \notin WellFormedEmails THEN "pattern" ELSE "none"
      [] f = "experience" -> IF v \notin ExperienceOptions THEN "required" ELSE "none"
      [] f = "github" -> IF Len(v) > 0 /\ v \notin GithubProfileUrls
                         THEN "pattern" ELSE "none"

C14_EmptyTrapIsNoop ==
    [][(IsKey(lastEvent', "Tab") /\ isModalOpen
            /\ \A i \in 1..Len(content) : ~Focusable(content[i]))
           => /\ ~handlerThrew'
              /\ ~defaultPrevented'
              /\ handlerFocused' = "none"]_vars

\* C14 witness: Tab was pressed with only the description rendered in the
\* content and focus on the body; the handler ran and did nothing.
C14_Witness ==
    /\ IsKey(lastEvent, "Tab")
    /\ isModalOpen
    /\ listeners = 1
    /\ content = <<"description">>
    /\ ~handlerThrew
    /\ ~defaultPrevented
    /\ handlerFocused = "none"

C16_ClosedMeansTriggerFocused ==
    (phase = "mounted" /\ ~isModalOpen)
        => (activeElement = "trigger" /\ listeners = 0)

\* C16 as amended: the initial mount leaves focus on the trigger button with
\* no keydown listener registered, and so does every step in which the effect
\* runs with the modal closed (the mount and every close); a later click on
\* the page can move focus off the trigger while the modal stays closed.
C16_EffectFocusesTriggerWhenClosed ==
    [][((lastEvent'.type = "mount" \/ (isModalOpen /\ ~isModalOpen'))
            /\ phase' = "mounted")
           => /\ ~isModalOpen'
              /\ activeElement' = "trigger"
              /\ listeners' = 0]_vars

\* C16 witness: the component has just been mounted: closed, focus on the
\* trigger, no listener.
C16_Witness ==
    /\ phase = "mounted"
    /\ lastEvent.type = "mount"
    /\ ~isModalOpen
    /\ activeElement = "trigger"
    /\ listeners = 0

====
